---- MODULE Spec2Model ----
\* A model of puggle (crates/puggle_lib/src/lib.rs) as two state machines:
\* the build orchestrator, build_from_dir, over the configuration, the source
\* tree, the listing index, the RSS buffer and the output tree (Spec), and the
\* event rewriter, parse, over its flags, its buffers and the events it
\* consumes and emits (SpecParse).
EXTENDS Naturals, Sequences, FiniteSets, TLC

VARIABLES
    config,         \* Config.pages, fixed for the build
    pc,             \* position in build_from_dir: "entry", "file", "listing", "rss", "done"
    result,         \* "running", "Ok", "Err" (a returned error) or "Panic" (an unwrap that failed)
    cause,          \* what ended the build early: "none", "readdir", "read", "parse", ...
    pi,             \* index in pages_with_entries of the page of the outer loop
    ei,             \* index in page.entries of the entry of the inner loop
    files,          \* the files of the current Dir entry that are still to be processed
    metadata_list,  \* the local metadata_list of the current page
    rss_items,      \* the local rss_items of the current page
    context,        \* the listing index: HashMap page name -> Vec<Metadata>
    feed_context,   \* the RSS buffer: HashMap page name -> RssFeed
    li,             \* index in config.pages of the next page of the listing pass
    feeds_left,     \* keys of feed_context the RSS pass has not yet taken
    disk,           \* the output tree: resolved path -> content
    faults,         \* number of failures the environment has injected so far
    processed,      \* history: the entries processed to the end, in order
    returned,       \* history: what get_markdown_paths returned, per Dir entry
    renders,        \* history: the listing templates rendered, with the index they saw
    writes,         \* history: every write that succeeded, in order
    failed_writes   \* history: every write that failed, in order

\* The state of parse().
VARIABLES
    parser,                             \* the iterator `parser`: "idle", the construct it is inside, or "end"
    metadata_txt,                       \* `metadata`, Option<String>: the text of the metadata block
    record_metadata,
    record_code_block,
    record_folded_code_block,
    record_heading,
    record_folded_code_block_summary,
    new_events,                         \* the output stream
    codeblock,                          \* the HTML buffer of the code block
    heading_text,                       \* the text buffer of the heading
    detected_lang,                      \* Option<&str>
    consumed                            \* history: the events taken from `parser`, in order

bvars == <<config, pc, result, cause, pi, ei, files, metadata_list, rss_items,
           context, feed_context, li, feeds_left, disk, faults, processed,
           returned, renders, writes, failed_writes>>

pvars == <<parser, metadata_txt, record_metadata, record_code_block, record_folded_code_block,
           record_heading, record_folded_code_block_summary, new_events, codeblock,
           heading_text, detected_lang, consumed>>

vars == <<bvars, pvars>>

\* ---------------------------------------------------------------- bounds

\* Pages plus entries in a configuration.
MaxSize == 4
\* Failures the environment injects in one build.
MaxFaults == 1

\* ------------------------------------------------------------ paths

\* A path is the sequence of its components; an absolute path starts with RootDir.
RootDir == "/"
ParentDir == ".."

\* PathBuf::join: an absolute argument replaces the path.
Join(p, q) == IF q # <<>> /\ q[1] = RootDir THEN q ELSE p \o q

\* PathBuf::with_extension, for a last component that has no extension yet.
WithExtension(p, ext) == [p EXCEPT ![Len(p)] = p[Len(p)] \o "." \o ext]

\* Path::file_stem of a path whose last component is <stem>.md.
FileStem(p) == p[Len(p)]

\* What the file system makes of a path: ".." steps out of the directory before it.
RECURSIVE Resolve(_)
Resolve(p) ==
    IF p = <<>> THEN <<>>
    ELSE LET r == Resolve(SubSeq(p, 1, Len(p) - 1))
             c == p[Len(p)]
         IN  IF c = ParentDir
             THEN IF r = <<>> \/ r = <<RootDir>> THEN r
                  ELSE SubSeq(r, 1, Len(r) - 1)
             ELSE Append(r, c)

\* Whether resolved path p lies under directory d.
IsUnder(p, d) == Len(p) > Len(d) /\ SubSeq(p, 1, Len(d)) = d

\* Config.dest_dir
dest_dir == <<"dest">>

\* ------------------------------------------------------- the source tree

\* A Markdown file: where it is, whether it has YAML front-matter, and the
\* title and aliases its front-matter gives.
MdFile(dir, stem, meta, title, aliases) ==
    [path |-> <<dir, stem>>, meta |-> meta, title |-> title, aliases |-> aliases]

SourceTree ==
    { MdFile("posts", "a", TRUE, "A", <<>>),
      MdFile("posts", "b", TRUE, "B", << <<"old">>, <<"very", "old">> >>),
      MdFile("misc", "a", TRUE, "A2", << <<"b">>, <<ParentDir>>, <<RootDir, "srv">> >>),
      MdFile("drafts", "c", FALSE, "", <<>>) }

FileAt(path) == CHOOSE f \in SourceTree : f.path = path

\* The *.md files directly in a directory.
FilesIn(dir) == {f \in SourceTree : f.path[1] = dir[1]}

\* Every order in which read_dir may list a set of files.
Orders(S) == {s \in [1..Cardinality(S) -> S] : \A i, j \in 1..Cardinality(S) : i # j => s[i] # s[j]}

\* -------------------------------------------------------- configurations

DirEntry(dir) == [kind |-> "Dir", path |-> <<dir>>]
FileEntry(dir, stem) == [kind |-> "File", path |-> <<dir, stem>>]

EntryChoices ==
    { DirEntry("posts"), DirEntry("misc"), DirEntry("drafts"),
      FileEntry("posts", "b"), FileEntry("drafts", "c") }

WithEntries(name, rss, entries) ==
    [kind |-> "WithEntries", name |-> name, rss |-> rss, entries |-> entries]
Standalone(name) ==
    [kind |-> "Standalone", name |-> name, rss |-> FALSE, entries |-> <<>>]

\* The pages a configuration is made of, before they are given entries.
PageShells ==
    { Standalone("about"), WithEntries("blog", TRUE, <<>>), WithEntries("blog", FALSE, <<>>),
      WithEntries("notes", TRUE, <<>>) }

SeqsUpTo(S, n) == UNION {[1..k -> S] : k \in 0..n}

\* The ways to give the pages of skeleton sk the entries es, in order: o[i] is
\* the page that holds es[i].
Owners(sk, es) ==
    {o \in [1..Len(es) -> {i \in 1..Len(sk) : sk[i].kind = "WithEntries"}] :
        \A i, j \in 1..Len(es) : i <= j => o[i] <= o[j]}

EntriesOf(es, o, p) ==
    LET Pick(n) == o[n] = p
        idx == SelectSeq([n \in 1..Len(es) |-> n], Pick)
    IN  [k \in 1..Len(idx) |-> es[idx[k]]]

\* Every configuration of at most MaxSize pages and entries.
Configs ==
    UNION { UNION { { [p \in 1..Len(sk) |-> [sk[p] EXCEPT !.entries = EntriesOf(es, o, p)]] :
                        o \in Owners(sk, es) } :
                    es \in SeqsUpTo(EntryChoices, MaxSize - Len(sk)) } :
            sk \in SeqsUpTo(PageShells, MaxSize) }

\* --------------------------------------------------------------- values

None == <<>>
Some(x) == <<x>>

\* Config.base_url
base_url == "https://site/"

\* parse(): the Metadata of the front-matter, if the file has any. file_name is
\* skip_deserializing, so it comes out as the default, the empty string.
ParseMetadata(file) ==
    IF file.meta
    THEN Some([title |-> file.title, file_name |-> "", aliases |-> file.aliases])
    ELSE None

\* The contents of the files of the output tree.
Content(kind, title, ref, pages, items) ==
    [kind |-> kind, title |-> title, ref |-> ref, pages |-> pages, items |-> items]

\* render_entry: the entry's partial (named by its source) in the entry template.
RenderEntry(file, metadata) == Content("entry", metadata.title, file.path, <<>>, <<>>)

\* The redirect stub: {0} the title, {1} PathBuf::from(page.name).join(md_file_name).
RedirHtml(metadata, page_name, md_file_name) ==
    Content("redirect", metadata.title, Join(<<page_name>>, <<md_file_name>>), <<>>, <<>>)

\* The page template rendered with context!(pages => context).
RenderListing(page, ctx) == Content("listing", "", <<page.name>>, ctx, <<>>)

\* rss::ChannelBuilder ... build(), written to the feed file.
Channel(page_name, feed) == Content("rss", feed.title, <<page_name>>, <<>>, feed.items)

\* What File::create leaves when nothing is written after it.
EmptyFile == Content("empty", "", <<>>, <<>>, <<>>)

\* generate_rss_item: title and guid (base_url joined with the file name).
Item(metadata) == [title |-> metadata.title, guid |-> base_url \o metadata.file_name]

\* ------------------------------------------------------------ output tree

TargetFile(page_name, md_file_name) ==
    WithExtension(Join(Join(Join(dest_dir, <<page_name>>), <<md_file_name>>), <<"index">>), "html")

AliasFile(page_name, alias) ==
    WithExtension(Join(Join(Join(dest_dir, <<page_name>>), alias), <<"index">>), "html")

ListingFile(page_name) ==
    WithExtension(Join(Join(dest_dir, <<page_name>>), <<"index">>), "html")

FeedFile(page_name) == WithExtension(Join(dest_dir, <<page_name>>), "rss")

\* std::fs::write: the file at the resolved path holds the content.
FsWrite(d, path, content) == (Resolve(path) :> content) @@ d

\* Path::exists of a directory: some file of the tree lies under it.
DirExists(d, dir) == \E p \in DOMAIN d : IsUnder(p, Resolve(dir))

WriteRecord(path, kind, page_name) ==
    [path |-> Resolve(path), kind |-> kind, page |-> page_name]

\* ------------------------------------------------------ the entries pass

PagesWithEntries(cfg) == LET IsWithEntries(p) == p.kind = "WithEntries"
                         IN  SelectSeq(cfg, IsWithEntries)

\* The next page after the p-th of pages_with_entries whose entries loop has
\* an iteration, 0 when there is none.
NextPage(cfg, p) ==
    LET pwe == PagesWithEntries(cfg)
        later == {q \in (p + 1)..Len(pwe) : pwe[q].entries # <<>>}
    IN  IF later = {} THEN 0 ELSE CHOOSE q \in later : \A r \in later : q <= r

\* Where build_from_dir goes when the entries pass is over.
AfterEntries(cfg) == IF Len(cfg) > 0 THEN "listing" ELSE "rss"

CurPage == PagesWithEntries(config)[pi]
CurEntry == CurPage.entries[ei]

\* The state one entry's processing works on.
Local ==
    [result |-> "running", cause |-> "none", disk |-> disk, rss_items |-> rss_items,
     metadata_list |-> metadata_list, writes |-> writes, failed_writes |-> failed_writes]

\* Stop with the error dropped: the failure is noted and the build goes on.
StopIgnored(st, res, why) == [st EXCEPT !.cause = why]

\* An error returned with `?` (res = "Err") or a failed unwrap (res = "Panic").
Stop(st, res, why) == [st EXCEPT !.result = res, !.cause = why]

\* pp.metadata is None: the Dir arm returns an error, the File arm unwraps.
MissingMetadata(arm, st) ==
    IF arm = "Dir" THEN Stop(st, "Err", "metadata") ELSE Stop(st, "Panic", "metadata")

\* Metadata { file_name: md_file_name, ..metadata }
WithFileName(metadata, md_file_name) == [metadata EXCEPT !.file_name = md_file_name]

\* The number of aliases the arm writes stubs for: only the Dir arm has the loop.
AliasCount(arm, metadata) == IF arm = "Dir" THEN Len(metadata.aliases) ELSE 0

\* The alias loop up to and including its n-th iteration.
RECURSIVE WriteAliases(_, _, _, _)
WriteAliases(st, page, metadata, n) ==
    IF n = 0 THEN st
    ELSE LET prev == WriteAliases(st, page, metadata, n - 1)
             alias_file == AliasFile(page.name, metadata.aliases[n])
         IN  [prev EXCEPT
                !.disk = FsWrite(@, alias_file, RedirHtml(metadata, page.name, metadata.file_name)),
                !.writes = Append(@, WriteRecord(alias_file, "redirect", page.name))]

\* metadata_list.insert(0, metadata): the newest entry first.
PushMetadataFront(list, metadata) == <<metadata>> \o list

\* metadata_list.push(metadata)
PushMetadata(list, metadata) == Append(list, metadata)

\* One file of an entry, from read_to_string to metadata_list.push. fault is the
\* step the environment makes fail ("none": no step), k the alias whose write fails.
ProcessEntry(arm, page, file, fault, k, st) ==
    LET md_file_name == FileStem(file.path)
        pp == ParseMetadata(file)
    IN  IF fault = "read" THEN Stop(st, "Err", "read")
        ELSE IF fault = "parse" THEN Stop(st, "Err", "parse")
        ELSE IF pp = None THEN MissingMetadata(arm, st)
        ELSE
        LET metadata == WithFileName(pp[1], md_file_name)
            target_file == TargetFile(page.name, md_file_name)
            st1 == IF page.rss THEN [st EXCEPT !.rss_items = Append(@, Item(metadata))] ELSE st
            st2 == [st1 EXCEPT
                      !.disk = FsWrite(@, target_file, RenderEntry(file, metadata)),
                      !.writes = Append(@, WriteRecord(target_file, "entry", page.name))]
            n == AliasCount(arm, metadata)
        IN  IF fault = "render" THEN Stop(st, "Err", "render")
            ELSE IF fault = "rss" THEN Stop(st, "Panic", "rss")
            ELSE IF fault = "write"
            THEN Stop([st1 EXCEPT !.failed_writes =
                          Append(@, WriteRecord(target_file, "entry", page.name))],
                      "Err", "write")
            ELSE IF fault = "alias"
            THEN Stop([WriteAliases(st2, page, metadata, k - 1) EXCEPT !.failed_writes =
                          Append(@, WriteRecord(AliasFile(page.name, metadata.aliases[k]),
                                                "redirect", page.name))],
                      "Err", "alias")
            ELSE [WriteAliases(st2, page, metadata, n) EXCEPT
                    !.metadata_list = PushMetadata(@, metadata)]

\* The steps of ProcessEntry that can fail for this file, as <<fault, k>>.
EntryFaults(arm, page, file) ==
    {<<"none", 0>>}
    \cup (IF faults < MaxFaults
          THEN {<<"read", 0>>}
               \cup (IF file.meta
                     THEN {<<"parse", 0>>, <<"render", 0>>, <<"write", 0>>}
                          \cup (IF page.rss THEN {<<"rss", 0>>} ELSE {})
                          \cup {<<"alias", k>> : k \in 1..AliasCount(arm, file)}
                     ELSE {})
          ELSE {})

Injected(fault) == IF fault = "none" THEN 0 ELSE 1

\* The assignments every step of one file makes from its outcome st.
Outcome(st, fault, file) ==
    /\ result' = st.result
    /\ cause' = st.cause
    /\ disk' = st.disk
    /\ rss_items' = st.rss_items
    /\ metadata_list' = st.metadata_list
    /\ writes' = st.writes
    /\ failed_writes' = st.failed_writes
    /\ faults' = faults + Injected(fault)
    /\ processed' = IF st.result = "running"
                    THEN Append(processed, [page |-> pi, entry |-> ei, name |-> CurPage.name,
                                            file |-> file.path])
                    ELSE processed

\* ---------------------------------------------------------------- Init

Init ==
    /\ config \in Configs
    /\ pi = NextPage(config, 0)
    /\ ei = IF pi = 0 THEN 0 ELSE 1
    /\ pc = IF pi = 0 THEN AfterEntries(config) ELSE "entry"
    /\ result = "running"
    /\ cause = "none"
    /\ files = <<>>
    /\ metadata_list = <<>>
    /\ rss_items = <<>>
    /\ context = <<>>
    /\ feed_context = <<>>
    /\ li = 1
    /\ feeds_left = {}
    /\ disk = <<>>
    /\ faults = 0
    /\ processed = <<>>
    /\ returned = <<>>
    /\ renders = <<>>
    /\ writes = <<>>
    /\ failed_writes = <<>>
    /\ parser = [at |-> "idle", left |-> 0, cut |-> FALSE]
    /\ metadata_txt = None
    /\ record_metadata = FALSE
    /\ record_code_block = FALSE
    /\ record_folded_code_block = FALSE
    /\ record_heading = FALSE
    /\ record_folded_code_block_summary = FALSE
    /\ new_events = <<>>
    /\ codeblock = <<>>
    /\ heading_text = <<>>
    /\ detected_lang = None
    /\ consumed = <<>>

\* ------------------------------------------------------------- actions

\* Entry::Dir: get_markdown_paths(source_dir)?
ReadDir ==
    /\ pc = "entry" /\ result = "running"
    /\ CurEntry.kind = "Dir"
    /\ \/ /\ faults < MaxFaults
          /\ result' = "Err" /\ cause' = "readdir" /\ pc' = "done"
          /\ faults' = faults + 1
          /\ UNCHANGED <<files, returned>>
       \/ \E fs \in Orders(FilesIn(CurEntry.path)) :
            /\ files' = fs
            /\ returned' = Append(returned, [page |-> pi, entry |-> ei, files |-> fs])
            /\ pc' = IF fs = <<>> THEN "insert" ELSE "file"
            /\ UNCHANGED <<result, cause, faults>>
    /\ UNCHANGED pvars
    /\ UNCHANGED <<config, pi, ei, metadata_list, rss_items, context, feed_context, li,
                   feeds_left, disk, processed, renders, writes, failed_writes>>

\* Entry::Dir: one iteration of `for file in files`.
ProcessDirFile ==
    /\ pc = "file" /\ result = "running"
    /\ files # <<>>
    /\ \E f \in EntryFaults("Dir", CurPage, Head(files)) :
         LET st == ProcessEntry("Dir", CurPage, Head(files), f[1], f[2], Local)
         IN  /\ Outcome(st, f[1], Head(files))
             /\ files' = Tail(files)
             /\ pc' = IF st.result # "running" THEN "done"
                      ELSE IF Tail(files) = <<>> THEN "insert" ELSE "file"
    /\ UNCHANGED pvars
    /\ UNCHANGED <<config, pi, ei, context, feed_context, li, feeds_left, returned, renders>>

\* Entry::File: the whole arm.
ProcessFileEntry ==
    /\ pc = "entry" /\ result = "running"
    /\ CurEntry.kind = "File"
    /\ \E f \in EntryFaults("File", CurPage, FileAt(CurEntry.path)) :
         LET st == ProcessEntry("File", CurPage, FileAt(CurEntry.path), f[1], f[2], Local)
         IN  /\ Outcome(st, f[1], FileAt(CurEntry.path))
             /\ pc' = IF st.result # "running" THEN "done" ELSE "insert"
    /\ UNCHANGED pvars
    /\ UNCHANGED <<config, pi, ei, files, context, feed_context, li, feeds_left, returned,
                   renders>>

\* context.insert(page.name, metadata_list.clone())
InsertContext(ctx, page, list) == (page.name :> list) @@ ctx

\* The feed of a page: rss_name is absent, so the title falls back to the page name.
RssFeed(page, items) == [title |-> page.name, items |-> items]

\* match feed_context.get_mut(page.name): append to the feed, or insert a new one.
UpdateFeed(fc, page, items) ==
    IF page.name \in DOMAIN fc
    THEN [fc EXCEPT ![page.name].items = @ \o items]
    ELSE (page.name :> RssFeed(page, items)) @@ fc

\* What is left in rss_items: Vec::append moves the items out, clone does not.
ItemsLeft(fc, page, items) == IF page.name \in DOMAIN fc THEN <<>> ELSE items

\* The end of one iteration of `for entry in page.entries`, and the loop heads
\* that follow it.
EndEntry ==
    /\ pc = "insert" /\ result = "running"
    /\ context' = InsertContext(context, CurPage, metadata_list)
    /\ feed_context' = UpdateFeed(feed_context, CurPage, rss_items)
    /\ IF ei < Len(CurPage.entries)
       THEN /\ ei' = ei + 1
            /\ rss_items' = ItemsLeft(feed_context, CurPage, rss_items)
            /\ pc' = "entry"
            /\ UNCHANGED <<pi, metadata_list>>
       ELSE /\ pi' = NextPage(config, pi)
            /\ ei' = IF pi' = 0 THEN 0 ELSE 1
            /\ metadata_list' = <<>>
            /\ rss_items' = <<>>
            /\ pc' = IF pi' = 0 THEN AfterEntries(config) ELSE "entry"
    /\ files' = <<>>
    /\ UNCHANGED pvars
    /\ UNCHANGED <<config, result, cause, li, feeds_left, disk, faults, processed, returned,
                   renders, writes, failed_writes>>

\* ------------------------------------------------------ the listing pass

\* Page::get_name
GetName(page) == page.name

\* The failures of one iteration of the listing pass: the template does not load
\* or render, create_dir_all fails (when the directory is missing), the write fails.
ListingFaults(page) ==
    {"none"}
    \cup (IF faults < MaxFaults
          THEN {"template", "write"}
               \cup (IF DirExists(disk, Join(dest_dir, <<GetName(page)>>)) THEN {} ELSE {"mkdir"})
          ELSE {})

\* let _ = std::fs::write(target_file, html): the result of the write is dropped.
ListingWriteResult(ok) == "running"

\* minijinja::context!(pages => context) serialises the HashMap by iterating it,
\* and a HashMap gives its keys in any order: the orders a template may see.
KeyOrders(ctx) == Orders(DOMAIN ctx)

\* One iteration of `for page in config.pages.iter()`.
RenderPage ==
    /\ pc = "listing" /\ result = "running"
    /\ li <= Len(config)
    /\ \E fault \in ListingFaults(config[li]), keys \in KeyOrders(context) :
         LET page == config[li]
             target_file == ListingFile(GetName(page))
             rec == WriteRecord(target_file, "listing", GetName(page))
         IN  /\ faults' = faults + Injected(fault)
             /\ renders' = IF fault = "template" THEN renders
                           ELSE Append(renders, [page |-> li, name |-> GetName(page),
                                                 pages |-> context, keys |-> keys])
             /\ result' = IF fault \in {"template", "mkdir"} THEN "Err"
                          ELSE IF fault = "write" THEN ListingWriteResult(FALSE)
                          ELSE "running"
             /\ cause' = IF result' = "running" THEN cause ELSE fault
             /\ disk' = IF fault = "none"
                        THEN FsWrite(disk, target_file, RenderListing(page, context))
                        ELSE disk
             /\ writes' = IF fault = "none" THEN Append(writes, rec) ELSE writes
             /\ failed_writes' = IF fault \in {"mkdir", "write"}
                                 THEN Append(failed_writes, rec) ELSE failed_writes
             /\ li' = li + 1
             /\ pc' = IF result' # "running" THEN "done"
                      ELSE IF li = Len(config) THEN "rss" ELSE "listing"
             /\ feeds_left' = IF pc' = "rss" THEN DOMAIN feed_context ELSE feeds_left
    /\ UNCHANGED pvars
    /\ UNCHANGED <<config, pi, ei, files, metadata_list, rss_items, context, feed_context,
                   processed, returned>>

\* ---------------------------------------------------------- the RSS pass

\* The failures of one feed: File::create fails, channel.write_to fails.
FeedFaults == {"none"} \cup (IF faults < MaxFaults THEN {"create", "write_to"} ELSE {})

\* One iteration of `for (page_name, rss_feed) in feed_context.into_iter()`; a
\* HashMap gives its entries in any order.
WriteFeed ==
    /\ pc = "rss" /\ result = "running"
    /\ \E page_name \in feeds_left : \E fault \in FeedFaults :
         LET target_dir == FeedFile(page_name)
             rec == WriteRecord(target_dir, "rss", page_name)
         IN  /\ faults' = faults + Injected(fault)
             /\ feeds_left' = feeds_left \ {page_name}
             /\ result' = IF fault = "none" THEN "running" ELSE "Panic"
             /\ cause' = IF fault = "none" THEN cause ELSE "feed"
             /\ pc' = IF fault = "none" THEN "rss" ELSE "done"
             /\ disk' = IF fault = "none"
                        THEN FsWrite(disk, target_dir, Channel(page_name, feed_context[page_name]))
                        ELSE IF fault = "write_to" THEN FsWrite(disk, target_dir, EmptyFile)
                        ELSE disk
             /\ writes' = IF fault = "none" THEN Append(writes, rec) ELSE writes
             /\ failed_writes' = IF fault = "none" THEN failed_writes
                                 ELSE Append(failed_writes, rec)
    /\ UNCHANGED pvars
    /\ UNCHANGED <<config, pi, ei, files, metadata_list, rss_items, context, feed_context, li,
                   processed, returned, renders>>

\* Ok(())
Return ==
    /\ pc = "rss" /\ result = "running"
    /\ feeds_left = {}
    /\ result' = "Ok"
    /\ pc' = "done"
    /\ UNCHANGED pvars
    /\ UNCHANGED <<config, cause, pi, ei, files, metadata_list, rss_items, context,
                   feed_context, li, feeds_left, disk, faults, processed, returned, renders,
                   writes, failed_writes>>

Next ==
    \/ ReadDir
    \/ ProcessDirFile
    \/ ProcessFileEntry
    \/ EndEntry
    \/ RenderPage
    \/ WriteFeed
    \/ Return

Spec == Init /\ [][Next]_vars

\* ================================================================ parse
\* The event rewriter: parse(config, parser, page_path), lib.rs:159-332.

\* ------------------------------------------------------------ strings

\* A string is the sequence of its characters. The two fold markers stand as one
\* unit each, and U+00E9 is the unit of a character that is two bytes long.
NewLine == "\n"
Tab == "\t"
EAcute == "U+00E9"
FoldStart == "### FOLD_START"
FoldEnd == "### FOLD_END"

\* The last element of a sequence that has one.
Last(s) == s[Len(s)]

\* txt.split("\n")
RECURSIVE Split(_)
Split(txt) ==
    IF \A i \in DOMAIN txt : txt[i] # NewLine THEN <<txt>>
    ELSE LET i == CHOOSE k \in DOMAIN txt :
                      txt[k] = NewLine /\ \A j \in 1..(k - 1) : txt[j] # NewLine
         IN  <<SubSeq(txt, 1, i - 1)>> \o Split(SubSeq(txt, i + 1, Len(txt)))

\* line.starts_with(prefix), for a prefix that is one unit.
StartsWith(line, prefix) == line # <<>> /\ line[1] = prefix

\* line.strip_prefix(" "), with the line itself when there is no such prefix.
StripPrefix(line) == IF StartsWith(line, " ") THEN Tail(line) ELSE line

\* line.get(0..1): the first byte, when it is a character of its own.
Get01(line) ==
    IF line = <<>> \/ line[1] = EAcute THEN None
    ELSE IF line[1] \in {FoldStart, FoldEnd} THEN Some("#")
    ELSE Some(line[1])

\* html_escape::encode_text
EncodeText(line) == [i \in DOMAIN line |-> IF line[i] = "<" THEN "&lt;" ELSE line[i]]

\* str::trim_end_matches: the pattern is taken off the end as often as it is there.
RECURSIVE TrimEndMatches(_, _)
TrimEndMatches(s, pat) ==
    IF Len(s) >= Len(pat) /\ SubSeq(s, Len(s) - Len(pat) + 1, Len(s)) = pat
    THEN TrimEndMatches(SubSeq(s, 1, Len(s) - Len(pat)), pat)
    ELSE s

\* heading_text.replace(" ", "-")
Replace(s) == [i \in DOMAIN s |-> IF s[i] = " " THEN "-" ELSE s[i]]

\* str::to_lowercase
ToLowercase(s) == [i \in DOMAIN s |-> IF s[i] = "A" THEN "a" ELSE s[i]]

\* str::trim: white space is taken off both ends.
WhiteSpace == {" ", Tab, NewLine}
RECURSIVE Trim(_)
Trim(s) ==
    IF s # <<>> /\ s[1] \in WhiteSpace THEN Trim(Tail(s))
    ELSE IF s # <<>> /\ s[Len(s)] \in WhiteSpace THEN Trim(SubSeq(s, 1, Len(s) - 1))
    ELSE s

\* let slug = heading_text.replace(" ", "-").to_lowercase(); let slug = slug.trim();
Slug(text) == Trim(ToLowercase(Replace(text)))

\* Url::set_fragment: tabs and newlines are dropped, and the characters of the
\* fragment percent-encode set (space, ", <, >, `, controls, non-ASCII) are encoded.
RECURSIVE Fragment(_)
Fragment(s) ==
    IF s = <<>> THEN <<>>
    ELSE (IF s[1] \in {Tab, NewLine} THEN <<>>
          ELSE IF s[1] = " " THEN <<"%20">>
          ELSE IF s[1] = "<" THEN <<"%3C">>
          ELSE IF s[1] = EAcute THEN <<"%C3%A9">>
          ELSE <<s[1]>>)
         \o Fragment(Tail(s))

\* The page_path parse() is called with.
page_path == "blog/a"

\* config.base_url.join(page_path), then set_fragment(Some(slug)), as Display writes it.
HeadingUrl(slug) == <<base_url \o page_path, "#">> \o Fragment(slug)

\* ------------------------------------------------------------- events

\* A pulldown_cmark event: its kind, its string (the text, the language tag or
\* the heading level) and whether that string is CowStr::Borrowed or owned
\* (CowStr::Boxed, CowStr::Inlined).
Ev(kind, str, cow) == [kind |-> kind, str |-> str, cow |-> cow]

\* Event::Html(CowStr::from(String))
Html(str) == Ev("Html", str, "Owned")

\* ------------------------------------------------- the code block buffer

PreOpen == "<pre><code>"
PreClose == "</code></pre>"
DetailsOpen == "<details><summary class=\"foldable\">"
SummaryClose == "</summary>"
DetailsClose == "</details>"
GreenSpan == "<span style=\"background: green; color: white;\">"
RedSpan == "<span style=\"background: red; color: white;\">"
NeutralSpan == "<span>"
SpanClose == "</span>\n"

\* match (line.get(0..1), detected_lang)
Span(line, lang) ==
    IF Get01(line) = Some("+") /\ lang = Some(<<"diff">>)
    THEN <<GreenSpan>> \o EncodeText(line) \o <<SpanClose>>
    ELSE IF Get01(line) = Some("-") /\ lang = Some(<<"diff">>)
    THEN <<RedSpan>> \o EncodeText(line) \o <<SpanClose>>
    ELSE <<NeutralSpan>> \o EncodeText(line) \o <<SpanClose>>

\* The branch of a ### FOLD_END line.
FoldEndLine(st) == [st EXCEPT !.codeblock = @ \o <<DetailsClose>>]

\* One iteration of `for ref mut line in txt.split("\n")`, on the buffer and the
\* two fold flags.
Line(st, line, lang) ==
    IF StartsWith(line, FoldStart)
    THEN [codeblock |-> st.codeblock \o <<DetailsOpen>>, folded |-> TRUE, summary |-> TRUE]
    ELSE IF StartsWith(line, FoldEnd)
    THEN FoldEndLine(st)
    ELSE IF st.folded /\ st.summary
    THEN [codeblock |-> st.codeblock \o EncodeText(StripPrefix(line)) \o <<SummaryClose>>,
          folded |-> st.folded, summary |-> FALSE]
    ELSE [st EXCEPT !.codeblock = @ \o Span(line, lang)]

\* The whole loop over the lines.
RECURSIVE Lines(_, _, _)
Lines(st, lines, lang) ==
    IF lines = <<>> THEN st ELSE Lines(Line(st, Head(lines), lang), Tail(lines), lang)

\* The preamble written for a Text event of a code block.
Preamble(buf) == buf \o <<PreOpen>>

\* codeblock.trim_end_matches("<span></span>\n")
TrimArtifact(buf) == TrimEndMatches(buf, <<NeutralSpan, SpanClose>>)

\* `if record_code_block { ... }` of the Text arm.
CodeText(st, txt, lang) ==
    LET done == Lines([st EXCEPT !.codeblock = Preamble(@)], Split(txt), lang)
    IN  [done EXCEPT !.codeblock = TrimArtifact(@) \o <<PreClose>>]

\* --------------------------------------------------------- headings

H1HtmlAnchored(text) ==
    <<"<h1 id=\"">> \o text \o <<"\"><a href=\"#">> \o text \o <<"\">">> \o text \o <<"</a></h1>">>

\* format!("<h1>{heading_text}</h1>")
H1Html(text) == <<"<h1>">> \o text \o <<"</h1>">>

\* format!("<{heading_level} id=\"{slug}\"><a href=\"{heading_url}\">{heading_text}</a></{heading_level}>")
HeadingHtml(level, text) ==
    <<"<", level, " id=\"">> \o Slug(text) \o <<"\"><a href=\"">> \o HeadingUrl(Slug(text))
    \o <<"\">">> \o text \o <<"</a></", level, ">">>

\* ------------------------------------------------- the input of parse()

\* The size of one input stream: a text counts the units it holds (lines in a
\* code block, characters elsewhere), the event that closes a construct nothing,
\* every other event one.
MaxInput == 4

\* The lines a code block is made of.
CodeLines == {<<>>, <<FoldStart>>, <<FoldEnd>>, <<"+", "<">>, <<"-">>, <<" ", "x">>}

RECURSIVE JoinLines(_)
JoinLines(ls) ==
    IF Len(ls) = 1 THEN ls[1] ELSE ls[1] \o <<NewLine>> \o JoinLines(Tail(ls))

\* The texts of at most n lines a Text event of a code block carries. A text
\* ends with a line ending, or it is cut before one: the file ends there, or the
\* line ends with CR LF, and then the next text of the block starts with the
\* line ending.
CodeTexts(n) ==
    { JoinLines(ls) \o end : ls \in UNION {[1..k -> CodeLines] : k \in 1..n},
                             end \in {<<>>, <<NewLine>>} } \ {<<>>}

\* The lines a text holds.
LinesIn(txt) == Len(Split(txt)) - (IF Last(txt) = NewLine THEN 1 ELSE 0)

\* The characters of heading text, and the texts of at most n characters.
HeadingChars == {"A", " ", EAcute}
HeadingTexts(n) == UNION {[1..k -> HeadingChars] : k \in 1..n}

Cows == {"Borrowed", "Owned"}
Langs == {<<"diff">>, <<>>}
HeadingLevels == {"h1", "h2"}

\* The last character of a text is no line ending.
Cut(txt) == Last(txt) # NewLine

\* What the iterator can give next. `at` is the construct it is inside, `left`
\* what is left of the bound, `cut` whether the last text of the code block it
\* is inside was cut before its line ending.
NextEvents(p) ==
    IF p.at = "top"
    THEN IF p.left = 0 THEN {}
         ELSE {Ev("Other", <<>>, "Borrowed")}
              \cup {Ev(k, <<"x">>, "Borrowed") : k \in {"Text", "Code"}}
              \cup {Ev("StartFenced", lang, "Borrowed") : lang \in Langs}
              \cup {Ev("StartIndented", <<>>, "Borrowed")}
              \cup {Ev("StartHeading", <<level>>, "Borrowed") : level \in HeadingLevels}
              \cup (IF consumed = <<>> THEN {Ev("StartMeta", <<>>, "Borrowed")} ELSE {})
    ELSE IF p.at = "meta"
    THEN (IF p.left >= 1 THEN {Ev("Text", <<"title: T">>, "Borrowed")} ELSE {})
         \cup {Ev("EndMeta", <<>>, "Borrowed")}
    ELSE IF p.at \in {"fenced", "indented"}
    THEN {Ev("Text", txt, "Borrowed") :
              txt \in {t \in CodeTexts(p.left) : p.cut => t[1] = NewLine}}
         \cup {Ev("EndCodeBlock", <<>>, "Borrowed")}
    ELSE IF p.at \in HeadingLevels
    THEN {Ev("Text", txt, cow) : txt \in HeadingTexts(p.left), cow \in Cows}
         \cup (IF p.left >= 1
               THEN {Ev("Code", <<"x">>, cow) : cow \in Cows}
               ELSE {})
         \cup {Ev("EndHeading", <<p.at>>, "Borrowed")}
    ELSE {}

\* What the event e counts, given inside the construct `at`.
Size(at, e) ==
    IF e.kind \in {"EndMeta", "EndCodeBlock", "EndHeading"} THEN 0
    ELSE IF e.kind # "Text" \/ at = "meta" THEN 1
    ELSE IF at \in {"fenced", "indented"} THEN LinesIn(e.str)
    ELSE Len(e.str)

\* The iterator after it gave e.
Advance(p, e) ==
    [at |-> IF e.kind = "StartMeta" THEN "meta"
            ELSE IF e.kind = "StartFenced" THEN "fenced"
            ELSE IF e.kind = "StartIndented" THEN "indented"
            ELSE IF e.kind = "StartHeading" THEN e.str[1]
            ELSE IF e.kind = "EndCodeBlock" /\ p.cut THEN "eof"
            ELSE IF e.kind \in {"EndMeta", "EndCodeBlock", "EndHeading"} THEN "top"
            ELSE p.at,
     left |-> p.left - Size(p.at, e),
     cut |-> e.kind = "Text" /\ p.at \in {"fenced", "indented"} /\ Cut(e.str)]

\* ------------------------------------------------------ parse: actions

\* The event e is taken from the iterator.
Take(e) ==
    /\ parser' = Advance(parser, e)
    /\ consumed' = Append(consumed, e)

\* Event::Start(Tag::MetadataBlock(MetadataBlockKind::YamlStyle))
StartMetadataBlock ==
    /\ \E e \in NextEvents(parser) :
         /\ e.kind = "StartMeta"
         /\ record_metadata' = TRUE
         /\ new_events' = Append(new_events, e)
         /\ Take(e)
    /\ UNCHANGED <<metadata_txt, record_code_block, record_folded_code_block, record_heading,
                   record_folded_code_block_summary, codeblock, heading_text, detected_lang>>
    /\ UNCHANGED bvars

\* Event::End(TagEnd::MetadataBlock(MetadataBlockKind::YamlStyle))
EndMetadataBlock ==
    /\ \E e \in NextEvents(parser) :
         /\ e.kind = "EndMeta"
         /\ record_metadata' = FALSE
         /\ new_events' = Append(new_events, e)
         /\ Take(e)
    /\ UNCHANGED <<metadata_txt, record_code_block, record_folded_code_block, record_heading,
                   record_folded_code_block_summary, codeblock, heading_text, detected_lang>>
    /\ UNCHANGED bvars

\* Event::Code(CowStr::Borrowed(txt))
Code ==
    /\ \E e \in NextEvents(parser) :
         /\ e.kind = "Code" /\ e.cow = "Borrowed"
         /\ heading_text' = IF record_heading THEN heading_text \o e.str ELSE heading_text
         /\ new_events' = IF record_heading THEN new_events ELSE Append(new_events, e)
         /\ Take(e)
    /\ UNCHANGED <<metadata_txt, record_metadata, record_code_block, record_folded_code_block,
                   record_heading, record_folded_code_block_summary, codeblock, detected_lang>>
    /\ UNCHANGED bvars

\* Event::Text(CowStr::Borrowed(txt))
Text ==
    /\ \E e \in NextEvents(parser) :
         /\ e.kind = "Text" /\ e.cow = "Borrowed"
         /\ LET st == [codeblock |-> codeblock, folded |-> record_folded_code_block,
                       summary |-> record_folded_code_block_summary]
                done == IF record_code_block THEN CodeText(st, e.str, detected_lang) ELSE st
            IN  /\ metadata_txt' = IF record_metadata THEN Some(e.str) ELSE metadata_txt
                /\ codeblock' = done.codeblock
                /\ record_folded_code_block' = done.folded
                /\ record_folded_code_block_summary' = done.summary
                /\ heading_text' = IF record_heading THEN heading_text \o e.str
                                   ELSE heading_text
                /\ new_events' = IF ~record_code_block /\ ~record_heading
                                 THEN Append(new_events, e) ELSE new_events
         /\ Take(e)
    /\ UNCHANGED <<record_metadata, record_code_block, record_heading, detected_lang>>
    /\ UNCHANGED bvars

\* A Start arm that would keep the language of the block before when the tag is
\* empty.
StartCodeBlockKeepsLang ==
    /\ \E e \in NextEvents(parser) :
         /\ e.kind = "StartFenced" /\ e.cow = "Borrowed"
         /\ detected_lang' = IF e.str = <<>> /\ detected_lang # None THEN detected_lang
                              ELSE Some(e.str)
         /\ record_code_block' = TRUE
         /\ Take(e)
    /\ UNCHANGED <<metadata_txt, record_metadata, record_folded_code_block, record_heading,
                   record_folded_code_block_summary, new_events, codeblock, heading_text>>
    /\ UNCHANGED bvars

\* Event::Start(Tag::CodeBlock(CodeBlockKind::Fenced(CowStr::Borrowed(lang))))
StartCodeBlock ==
    /\ \E e \in NextEvents(parser) :
         /\ e.kind = "StartFenced" /\ e.cow = "Borrowed"
         /\ detected_lang' = Some(e.str)
         /\ record_code_block' = TRUE
         /\ Take(e)
    /\ UNCHANGED <<metadata_txt, record_metadata, record_folded_code_block, record_heading,
                   record_folded_code_block_summary, new_events, codeblock, heading_text>>
    /\ UNCHANGED bvars

\* Event::End(TagEnd::CodeBlock)
EndCodeBlock ==
    /\ \E e \in NextEvents(parser) :
         /\ e.kind = "EndCodeBlock"
         /\ new_events' = Append(new_events, Html(codeblock))
         /\ codeblock' = <<>>
         /\ record_code_block' = FALSE
         /\ Take(e)
    /\ UNCHANGED <<metadata_txt, record_metadata, record_folded_code_block, record_heading,
                   record_folded_code_block_summary, heading_text, detected_lang>>
    /\ UNCHANGED bvars

\* Event::Start(Tag::Heading { .. })
StartHeading ==
    /\ \E e \in NextEvents(parser) :
         /\ e.kind = "StartHeading"
         /\ record_heading' = TRUE
         /\ Take(e)
    /\ UNCHANGED <<metadata_txt, record_metadata, record_code_block, record_folded_code_block,
                   record_folded_code_block_summary, new_events, codeblock, heading_text,
                   detected_lang>>
    /\ UNCHANGED bvars

\* Event::End(TagEnd::Heading(pulldown_cmark::HeadingLevel::H1))
EndHeadingH1 ==
    /\ \E e \in NextEvents(parser) :
         /\ e.kind = "EndHeading" /\ e.str = <<"h1">>
         /\ new_events' = Append(new_events, Html(H1Html(heading_text)))
         /\ heading_text' = <<>>
         /\ record_heading' = FALSE
         /\ Take(e)
    /\ UNCHANGED <<metadata_txt, record_metadata, record_code_block, record_folded_code_block,
                   record_folded_code_block_summary, codeblock, detected_lang>>
    /\ UNCHANGED bvars

\* Event::End(TagEnd::Heading(heading_level))
EndHeading ==
    /\ \E e \in NextEvents(parser) :
         /\ e.kind = "EndHeading" /\ e.str # <<"h1">>
         /\ new_events' = Append(new_events, Html(HeadingHtml(e.str[1], heading_text)))
         /\ heading_text' = <<>>
         /\ record_heading' = FALSE
         /\ Take(e)
    /\ UNCHANGED <<metadata_txt, record_metadata, record_code_block, record_folded_code_block,
                   record_folded_code_block_summary, codeblock, detected_lang>>
    /\ UNCHANGED bvars

\* The events no earlier arm of the match takes.
Unmatched(e) ==
    \/ e.kind \in {"Other", "StartIndented"}
    \/ e.kind \in {"Code", "Text", "StartFenced"} /\ e.cow # "Borrowed"

\* e => { new_events.push(e); }
Forward ==
    /\ \E e \in NextEvents(parser) :
         /\ Unmatched(e)
         /\ new_events' = Append(new_events, e)
         /\ Take(e)
    /\ UNCHANGED <<metadata_txt, record_metadata, record_code_block, record_folded_code_block,
                   record_heading, record_folded_code_block_summary, codeblock, heading_text,
                   detected_lang>>
    /\ UNCHANGED bvars

\* The iterator is exhausted: the metadata is deserialised and the events returned.
ParseReturn ==
    /\ parser.at \in {"top", "eof"}
    /\ parser' = [parser EXCEPT !.at = "end"]
    /\ UNCHANGED <<metadata_txt, record_metadata, record_code_block, record_folded_code_block,
                   record_heading, record_folded_code_block_summary, new_events, codeblock,
                   heading_text, detected_lang, consumed>>
    /\ UNCHANGED bvars

\* The locals of parse() as they are declared.
ParseLocals ==
    /\ metadata_txt = None
    /\ record_metadata = FALSE
    /\ record_code_block = FALSE
    /\ record_folded_code_block = FALSE
    /\ record_heading = FALSE
    /\ record_folded_code_block_summary = FALSE
    /\ new_events = <<>>
    /\ codeblock = <<>>
    /\ heading_text = <<>>
    /\ detected_lang = None
    /\ consumed = <<>>

\* No build runs while one call of parse() is looked at.
NoBuild ==
    /\ config = <<>>
    /\ pc = "done"
    /\ result = "Ok"
    /\ cause = "none"
    /\ pi = 0
    /\ ei = 0
    /\ files = <<>>
    /\ metadata_list = <<>>
    /\ rss_items = <<>>
    /\ context = <<>>
    /\ feed_context = <<>>
    /\ li = 1
    /\ feeds_left = {}
    /\ disk = <<>>
    /\ faults = 0
    /\ processed = <<>>
    /\ returned = <<>>
    /\ renders = <<>>
    /\ writes = <<>>
    /\ failed_writes = <<>>

ParseInit ==
    /\ parser = [at |-> "top", left |-> MaxInput, cut |-> FALSE]
    /\ ParseLocals
    /\ NoBuild

ParseNext ==
    \/ StartMetadataBlock
    \/ EndMetadataBlock
    \/ Code
    \/ Text
    \/ StartCodeBlock
    \/ EndCodeBlock
    \/ StartHeading
    \/ EndHeadingH1
    \/ EndHeading
    \/ Forward
    \/ ParseReturn

SpecParse == ParseInit /\ [][ParseNext]_vars

\* ============================================================== claims

Range(s) == {s[i] : i \in DOMAIN s}

\* The Metadata the build makes of the source file at path.
MetadataOf(path) == WithFileName(ParseMetadata(FileAt(path))[1], FileStem(path))

\* The records of `processed` that belong to the p-th page with entries.
ProcessedOf(p) == LET OfPage(r) == r.page = p IN SelectSeq(processed, OfPage)

\* The records of `processed` that belong to a page of the name.
ProcessedNamed(name) == LET OfName(r) == r.name = name IN SelectSeq(processed, OfName)

\* Whether no other page with entries has the name of the p-th.
UniqueName(p) ==
    LET pwe == PagesWithEntries(config)
    IN  \A q \in 1..Len(pwe) : q # p => pwe[q].name # pwe[p].name

Count(x, s) == Cardinality({i \in DOMAIN s : s[i] = x})

\* The output tree that the writes made so far leave, applied in order.
RECURSIVE PathsWritten(_)
PathsWritten(w) == IF w = <<>> THEN {} ELSE {Head(w).path} \cup PathsWritten(Tail(w))

\* C1: for every WithEntries page with rss: true (and a name of its own), the
\* feed file a build without failures wrote holds exactly one item per processed
\* entry file of the page, in processing order.
C1_FeedOneItemPerEntry ==
    (result = "Ok" /\ faults = 0) =>
        \A p \in 1..Len(PagesWithEntries(config)) :
            LET page == PagesWithEntries(config)[p]
                feed == Resolve(FeedFile(page.name))
                done == ProcessedOf(p)
            IN  (page.rss /\ UniqueName(p) /\ feed \in DOMAIN disk) =>
                    disk[feed].items = [i \in 1..Len(done) |-> Item(MetadataOf(done[i].file))]

\* C2: after a build without failures, the feed file of a page name exists if
\* and only if a WithEntries page of that name has rss: true.
C2_FeedIffRss ==
    (result = "Ok" /\ faults = 0) =>
        \A i \in 1..Len(config) :
            (Resolve(FeedFile(config[i].name)) \in DOMAIN disk)
                <=> (\E j \in 1..Len(config) :
                        /\ config[j].name = config[i].name
                        /\ config[j].kind = "WithEntries"
                        /\ config[j].rss)

\* C3: after a build without failures, for every processed entry (Dir or File)
\* and every alias of its metadata, the stub <dest_dir>/<page>/<alias>/index.html
\* exists and is the redirect with the entry's title and canonical path
\* <page>/<stem>.
C3_AliasStubsWritten ==
    (result = "Ok" /\ faults = 0) =>
        \A i \in 1..Len(processed) :
            LET metadata == MetadataOf(processed[i].file)
            IN  \A a \in 1..Len(metadata.aliases) :
                    LET stub == Resolve(AliasFile(processed[i].name, metadata.aliases[a]))
                    IN  /\ stub \in DOMAIN disk
                        /\ disk[stub] = RedirHtml(metadata, processed[i].name, metadata.file_name)

\* C4: an entry without front-matter ends the build in a returned error, never
\* in a panic, and leaves no record of itself in the index.
C4_MissingMetadataIsError ==
    /\ cause = "metadata" => result = "Err"
    /\ \A i \in 1..Len(processed) : FileAt(processed[i].file).meta

\* The ways an entry fails.
EntryCauses == {"readdir", "read", "parse", "metadata", "render", "rss", "write", "alias"}

\* C5: once an entry has failed the build is over: no listing template has been
\* or will be rendered, no feed written, no later entry processed, and every
\* file written before the failure stays as it was written (the failing entry
\* removes no file and changes only the files it wrote itself before it failed).
C5_StopsAtFirstError ==
    /\ [](cause \in EntryCauses =>
            /\ result \in {"Err", "Panic"}
            /\ renders = <<>>
            /\ \A i \in 1..Len(writes) : writes[i].kind \in {"entry", "redirect"}
            /\ DOMAIN disk = PathsWritten(writes))
    /\ [][(cause = "none" /\ cause' \in EntryCauses) =>
            \A p \in DOMAIN disk :
                /\ p \in DOMAIN disk'
                /\ \/ disk'[p] = disk[p]
                   \/ p \in PathsWritten(SubSeq(writes', Len(writes) + 1, Len(writes')))]_vars
    /\ [][(cause \in EntryCauses) => UNCHANGED vars]_vars

\* C5's case: an entry failed after files had been written.
C5_Witness ==
    /\ cause \in EntryCauses
    /\ result = "Err"
    /\ writes # <<>>
    /\ processed # <<>>

\* C6: the build never returns Ok after a write failed, and a failed write ends
\* it in a returned error.
C6_WriteFailurePropagates ==
    /\ result = "Ok" => failed_writes = <<>>
    /\ (failed_writes # <<>> /\ pc = "done") => result = "Err"

\* C7: every HTML file the build writes lies under <dest_dir>/<page.name>/ of
\* the page it belongs to.
C7_HtmlUnderPageDir ==
    \A i \in 1..Len(writes) :
        writes[i].kind \in {"entry", "redirect", "listing"} =>
            IsUnder(writes[i].path, Resolve(Join(dest_dir, <<writes[i].page>>)))

\* C8: no alias stub is written to the path of an entry page or of a listing
\* page of the same build (no entry of the source tree has its own stem as alias).
C8_AliasesNeverOverwrite ==
    \A i, j \in 1..Len(writes) :
        (writes[i].kind = "redirect" /\ writes[j].kind \in {"entry", "listing"}) =>
            writes[i].path # writes[j].path

\* C9: whenever a listing template is rendered, the index it sees holds, under
\* each page name, the Metadata of every entry processed for a page of that
\* name, once per processed entry.
C9_IndexHoldsEveryEntry ==
    \A r \in 1..Len(renders) : \A i \in 1..Len(config) :
        LET done == ProcessedNamed(config[i].name)
            expected == [k \in 1..Len(done) |-> MetadataOf(done[k].file)]
        IN  done # <<>> =>
                /\ config[i].name \in DOMAIN renders[r].pages
                /\ \A m \in Range(expected) :
                      Count(m, renders[r].pages[config[i].name]) = Count(m, expected)

\* The files of the e-th entry of the p-th page with entries, in the order they
\* are processed: a Dir entry's in the order get_markdown_paths returned them.
FilesOfEntry(p, e) ==
    LET entry == PagesWithEntries(config)[p].entries[e]
    IN  IF entry.kind = "File" THEN <<entry.path>>
        ELSE LET rec == CHOOSE r \in Range(returned) : r.page = p /\ r.entry = e
             IN  [k \in 1..Len(rec.files) |-> rec.files[k].path]

\* The Metadata of the files of entries 1..k of the p-th page with entries.
RECURSIVE Cumulative(_, _)
Cumulative(p, k) ==
    IF k = 0 THEN <<>>
    ELSE Cumulative(p, k - 1)
         \o [n \in 1..Len(FilesOfEntry(p, k)) |-> MetadataOf(FilesOfEntry(p, k)[n])]

\* C10: when the k-th entry of a page is done, the index value of the page is
\* the list of the files of entries 1..k, in configuration order and, within a
\* Dir entry, in the order get_markdown_paths returned; listing templates are
\* rendered in page declaration order.
C10_IndexOrder ==
    /\ [](\A j \in 1..Len(renders) : renders[j].page = j /\ renders[j].name = config[j].name)
    /\ [][(pc = "insert") => (context'[CurPage.name] = Cumulative(pi, ei))]_vars

\* C10's case: a page with a Dir entry of two files and another entry, rendered.
C10_Witness ==
    /\ Len(renders) = 2
    /\ \E name \in DOMAIN context : Len(context[name]) = 3

\* The names of the pages of cfg that are keys of the index ctx, each once, in the
\* order of their first page in the configuration.
RECURSIVE ConfigOrder(_, _, _)
ConfigOrder(cfg, ctx, i) ==
    IF i > Len(cfg) THEN <<>>
    ELSE LET name == cfg[i].name
             seen == {cfg[j].name : j \in 1..(i - 1)}
         IN  (IF name \in DOMAIN ctx /\ name \notin seen THEN <<name>> ELSE <<>>)
             \o ConfigOrder(cfg, ctx, i + 1)

\* C11: in every listing render, iterating the keys of `pages` yields the page
\* names in page configuration order.
C11_IndexKeysInConfigOrder ==
    \A r \in 1..Len(renders) :
        renders[r].keys = ConfigOrder(config, renders[r].pages, 1)

\* C12: after a build that succeeded, the file <dest_dir>/<page>/<stem>/index.html
\* of every processed entry exists and holds that entry's rendered page.
C12_EntryPageOnDisk ==
    (pc = "done" /\ result = "Ok") =>
        \A i \in 1..Len(processed) :
            LET file == FileAt(processed[i].file)
                path == Resolve(TargetFile(processed[i].name, FileStem(processed[i].file)))
            IN  /\ path \in DOMAIN disk
                /\ disk[path] = RenderEntry(file, MetadataOf(processed[i].file))

\* ------------------------------------------------------ claims on parse

\* The input events at positions i..j, and the position of the Start event of
\* the construct that the event at position j closes.
Events(i, j) == SubSeq(consumed, i, j)
StartOf(j) == CHOOSE i \in 1..j :
                  /\ consumed[i].kind \in {"StartFenced", "StartIndented", "StartHeading", "StartMeta"}
                  /\ \A k \in (i + 1)..j :
                         consumed[k].kind \notin {"StartFenced", "StartIndented", "StartHeading",
                                                  "StartMeta"}

\* A fenced code block has just been closed: the last event taken is
\* End(CodeBlock) and the block it closes was opened by Start(CodeBlock(Fenced)).
FencedClosed ==
    /\ consumed # <<>>
    /\ Last(consumed).kind = "EndCodeBlock"
    /\ consumed[StartOf(Len(consumed))].kind = "StartFenced"

\* The Text events of the block just closed, in order.
BlockTexts ==
    LET i == StartOf(Len(consumed))
    IN  [k \in 1..(Len(consumed) - i - 1) |-> consumed[i + k].str]

\* The language of the block just closed.
BlockLang == consumed[StartOf(Len(consumed))].str

\* C13: right after a fenced code block with no Text event is closed, the event
\* emitted for it is one Html event whose content is <pre><code></code></pre>.
C13_EmptyBlockHtml ==
    (FencedClosed /\ BlockTexts = <<>>) =>
        /\ new_events # <<>>
        /\ Last(new_events) = Html(<<PreOpen, PreClose>>)

\* The concatenation of a sequence of strings.
RECURSIVE Concat(_)
Concat(ss) == IF ss = <<>> THEN <<>> ELSE Head(ss) \o Concat(Tail(ss))

\* The lines of a text: what lies between its line endings, without the empty
\* piece after a last line ending.
TextLines(txt) ==
    IF txt = <<>> THEN <<>>
    ELSE LET pieces == Split(txt)
         IN  IF Last(txt) = NewLine THEN SubSeq(pieces, 1, Len(pieces) - 1) ELSE pieces

IsMarker(line) == StartsWith(line, FoldStart) \/ StartsWith(line, FoldEnd)

\* The span the colouring rule gives a line of a block of language lang.
ColouredLine(line, lang) ==
    (IF lang = <<"diff">> /\ StartsWith(line, "+") THEN <<GreenSpan>>
     ELSE IF lang = <<"diff">> /\ StartsWith(line, "-") THEN <<RedSpan>>
     ELSE <<NeutralSpan>>)
    \o EncodeText(line) \o <<SpanClose>>

\* C14: the HTML of a fenced block without fold markers is one <pre><code>,
\* then every line of the block in its span (green for + and red for - in a
\* diff block, neutral otherwise) closed by </span>\n, then one </code></pre>.
C14_DiffColouring ==
    LET lines == TextLines(Concat(BlockTexts))
    IN  (FencedClosed /\ BlockTexts # <<>> /\ \A k \in DOMAIN lines : ~IsMarker(lines[k])) =>
            Last(new_events) =
                Html(<<PreOpen>>
                     \o Concat([k \in DOMAIN lines |-> ColouredLine(lines[k], BlockLang)])
                     \o <<PreClose>>)

\* What the fold rule makes of the lines of a block, from the k-th line on;
\* `awaiting` says that the last FOLD_START still waits for its summary line.
RECURSIVE Folded(_, _, _, _)
Folded(lines, lang, k, awaiting) ==
    IF k > Len(lines) THEN [html |-> <<>>, awaiting |-> awaiting]
    ELSE LET line == lines[k]
             here == IF StartsWith(line, FoldStart) THEN <<DetailsOpen>>
                     ELSE IF StartsWith(line, FoldEnd) THEN <<DetailsClose>>
                     ELSE IF awaiting THEN EncodeText(StripPrefix(line)) \o <<SummaryClose>>
                     ELSE ColouredLine(line, lang)
             rest == Folded(lines, lang, k + 1,
                            IF StartsWith(line, FoldStart) THEN TRUE
                            ELSE IF StartsWith(line, FoldEnd) THEN awaiting
                            ELSE FALSE)
         IN  [html |-> here \o rest.html, awaiting |-> rest.awaiting]

\* C15: in the HTML of a fenced block in which every FOLD_START is followed by
\* a line that is no marker, the first such line after each FOLD_START is the
\* summary (one leading space removed, no span, then </summary>), every other
\* line that is no marker is a span line, and no marker line is in the output.
C15_FoldSummary ==
    LET lines == TextLines(Concat(BlockTexts))
        folded == Folded(lines, BlockLang, 1, FALSE)
    IN  (/\ FencedClosed
         /\ \E k \in DOMAIN lines : StartsWith(lines[k], FoldStart)
         /\ ~folded.awaiting) =>
            Last(new_events) = Html(<<PreOpen>> \o folded.html \o <<PreClose>>)

\* The step takes an event of this kind from the iterator.
Takes(kind) == consumed' # consumed /\ Last(consumed').kind = kind

\* C16: Start(Heading) emits nothing; End(Heading) emits exactly one Html event,
\* <h1>text</h1> for H1 and <hN id="slug"><a href="heading_url">text</a></hN>
\* for the other levels, where text is the heading text gathered so far; after
\* it heading_text is empty and record_heading is false.
C16_HeadingHtml ==
    /\ [][Takes("StartHeading") => new_events' = new_events]_vars
    /\ [][Takes("EndHeading") =>
            LET level == Last(consumed').str[1]
                text == heading_text
                html == IF level = "h1"
                        THEN <<"<h1>">> \o text \o <<"</h1>">>
                        ELSE <<"<", level, " id=\"">> \o Slug(text) \o <<"\"><a href=\"">>
                             \o HeadingUrl(Slug(text)) \o <<"\">">> \o text
                             \o <<"</a></", level, ">">>
            IN  /\ new_events' = Append(new_events, Html(html))
                /\ heading_text' = <<>>
                /\ record_heading' = FALSE]_vars

\* An H1 and an H2 heading, each with text, have been rewritten in one stream.
C16_Witness ==
    /\ Len(new_events) = 2
    /\ new_events[1] = Html(<<"<h1>", "A", "</h1>">>)
    /\ new_events[2] = Html(<<"<", "h2", " id=\"", "a", "\"><a href=\"", "https://site/blog/a",
                               "#", "a", "\">", "A", "</a></", "h2", ">">>)
    /\ Len(consumed) = 6
    /\ heading_text = <<>> /\ ~record_heading

\* C17: End(Heading) of a level other than H1, with the text T gathered, emits
\* the id slug(T) = trim(lowercase(replace(T, " ", "-"))) and the href base_url
\* joined with page_path followed by "#" and that same slug; slug(slug(T)) = slug(T).
C17_SlugRoundTrip ==
    [][(Takes("EndHeading") /\ Last(consumed').str # <<"h1">>) =>
          LET level == Last(consumed').str[1]
              slug == Trim(ToLowercase(Replace(heading_text)))
          IN  /\ Last(new_events') =
                    Html(<<"<", level, " id=\"">> \o slug
                         \o <<"\"><a href=\"", base_url \o page_path, "#">> \o slug
                         \o <<"\">">> \o heading_text \o <<"</a></", level, ">">>)
              /\ Trim(ToLowercase(Replace(slug))) = slug]_vars

\* The HTML a fenced block of this text and this language gets when it is the
\* first thing of a stream and its text comes as one Text event: the locals are
\* as parse() declares them.
FirstBlock(txt, lang) ==
    CodeText([codeblock |-> <<>>, folded |-> FALSE, summary |-> FALSE], txt, Some(lang)).codeblock

\* C18: the HTML emitted for a fenced block that has text is the HTML its text
\* and its language give at the head of a stream, whatever came before the
\* block and however the text is delivered.
C18_BlockHtmlIsFunction ==
    (FencedClosed /\ BlockTexts # <<>>) =>
        Last(new_events) = Html(FirstBlock(Concat(BlockTexts), BlockLang))

\* How often the unit u is in the string s.
Occurrences(s, u) == Cardinality({k \in DOMAIN s : s[k] = u})

\* C19: right after End(CodeBlock) of a fenced block that had two Text events
\* or more, the last output event is an Html event that starts with the only
\* <pre><code> in it and ends with the only </code></pre> in it, the codeblock
\* buffer is empty and record_code_block is false.
C19_OneWrapperPerBlock ==
    (FencedClosed /\ Len(BlockTexts) >= 2) =>
        LET html == Last(new_events)
        IN  /\ html.kind = "Html"
            /\ html.str # <<>>
            /\ Head(html.str) = PreOpen /\ Occurrences(html.str, PreOpen) = 1
            /\ Last(html.str) = PreClose /\ Occurrences(html.str, PreClose) = 1
            /\ codeblock = <<>>
            /\ ~record_code_block

\* C20: when the last line the rewriter has processed, the last piece of the
\* last Text event of an open code block, is a ### FOLD_END line,
\* record_folded_code_block is false.
C20_FoldEndClearsFlag ==
    (/\ consumed # <<>>
     /\ Last(consumed).kind = "Text"
     /\ record_code_block
     /\ StartsWith(Last(Split(Last(consumed).str)), FoldEnd)) =>
        ~record_folded_code_block

\* How often the empty span, <span></span>\n, is in the HTML s.
EmptySpans(s) ==
    Cardinality({k \in 1..(Len(s) - 1) : s[k] = NeutralSpan /\ s[k + 1] = SpanClose})

\* C21: the HTML of a fenced block without fold markers holds one <span></span>\n
\* for every empty line of the block's text, the empty lines at the end of the
\* block included: only the span of the empty piece after the last line ending
\* is trimmed.
C21_OnlyArtifactTrimmed ==
    LET lines == TextLines(Concat(BlockTexts))
    IN  (FencedClosed /\ BlockTexts # <<>> /\ \A k \in DOMAIN lines : ~IsMarker(lines[k])) =>
            EmptySpans(Last(new_events).str) = Cardinality({k \in DOMAIN lines : lines[k] = <<>>})

\* The fenced block just closed follows, with or without events between, a
\* fenced block of the language `diff`.
AfterDiffBlock ==
    LET i == StartOf(Len(consumed))
        before == {j \in 1..(i - 1) : consumed[j].kind = "StartFenced"}
    IN  /\ before # {}
        /\ consumed[CHOOSE j \in before : \A k \in before : k <= j].str = <<"diff">>

\* A line of the block just closed starts with the character c.
HasLine(c) ==
    LET lines == TextLines(Concat(BlockTexts))
    IN  \E k \in DOMAIN lines : StartsWith(lines[k], c)

StartKinds == {"StartFenced", "StartIndented", "StartHeading", "StartMeta"}
EndKinds == {"EndCodeBlock", "EndHeading", "EndMeta"}

\* The input event at position k lies inside a construct opened by a Start
\* event of this kind.
Inside(k, start) ==
    \E i \in 1..(k - 1) :
        /\ consumed[i].kind = start
        /\ \A j \in (i + 1)..(k - 1) : consumed[j].kind \notin StartKinds \cup EndKinds

\* The strings of the input events after position i, one after the other.
TextAfter(i) == Concat([k \in 1..(Len(consumed) - i) |-> consumed[i + k].str])

\* The Text and inline Code events of a stream.
TextOrCode(events) ==
    LET Is(e) == e.kind \in {"Text", "Code"} IN SelectSeq(events, Is)

\* C23: inside a heading, heading_text is the concatenation, in order, of the
\* strings of every Text and inline Code event taken since Start(Heading),
\* borrowed or owned, and none of these events is in the output stream: the
\* Text and Code events of the output are those of the input that lie outside
\* headings and fenced code blocks.
C23_HeadingGathersAll ==
    /\ parser.at \in HeadingLevels => heading_text = TextAfter(StartOf(Len(consumed)))
    /\ TextOrCode(new_events) =
           LET idx == {k \in DOMAIN consumed :
                          /\ consumed[k].kind \in {"Text", "Code"}
                          /\ ~Inside(k, "StartHeading")
                          /\ ~Inside(k, "StartFenced")}
           IN  [n \in 1..Cardinality(idx) |->
                   consumed[CHOOSE k \in idx : Cardinality({j \in idx : j <= k}) = n]]

\* The input event at position k is part of a metadata block, a fenced code
\* block or a heading: it opens one, lies inside one or closes one.
PartOfConstruct(k) ==
    \/ consumed[k].kind \in {"StartMeta", "StartFenced", "StartHeading"}
    \/ Inside(k, "StartMeta")
    \/ Inside(k, "StartFenced")
    \/ Inside(k, "StartHeading")

\* The input events that are part of no such construct, in order.
OtherEvents ==
    LET idx == {k \in DOMAIN consumed : ~PartOfConstruct(k)}
    IN  [n \in 1..Cardinality(idx) |->
            consumed[CHOOSE k \in idx : Cardinality({j \in idx : j <= k}) = n]]

\* The events of a are in b, in the same relative order.
RECURSIVE IsSubSeq(_, _)
IsSubSeq(a, b) ==
    IF a = <<>> THEN TRUE
    ELSE IF b = <<>> THEN FALSE
    ELSE IF Head(a) = Head(b) THEN IsSubSeq(Tail(a), Tail(b))
    ELSE IsSubSeq(a, Tail(b))

\* C24: every input event that is part of no metadata block, fenced code block
\* or heading is in the output stream, unchanged and in the same relative
\* order, the Start, Text and End events of an indented code block among them;
\* and the Html events of the output are one per closed fenced block and one
\* per closed heading, none for an indented block.
C24_OthersForwarded ==
    /\ IsSubSeq(OtherEvents, new_events)
    /\ Cardinality({k \in DOMAIN new_events : new_events[k].kind = "Html"}) =
           Cardinality({k \in DOMAIN consumed :
                           \/ consumed[k].kind = "EndHeading"
                           \/ consumed[k].kind = "EndCodeBlock" /\ Inside(k, "StartFenced")})

\* Where the fold tags of the HTML s stand after its k-th unit and those that
\* follow, from the standing st: "out" of any fold, "summary" after
\* <details><summary class="foldable">, "details" after the </summary> that
\* follows it, "bad" once a tag came out of turn.
RECURSIVE Nesting(_, _, _)
Nesting(s, k, st) ==
    IF k > Len(s) \/ st = "bad" THEN st
    ELSE Nesting(s, k + 1,
                 IF s[k] = DetailsOpen THEN (IF st = "out" THEN "summary" ELSE "bad")
                 ELSE IF s[k] = SummaryClose THEN (IF st = "summary" THEN "details" ELSE "bad")
                 ELSE IF s[k] = DetailsClose THEN (IF st = "details" THEN "out" ELSE "bad")
                 ELSE IF s[k] = PreClose THEN (IF st = "out" THEN "out" ELSE "bad")
                 ELSE st)

\* C26: in the HTML emitted for a fenced code block the fold tags are well
\* nested: every <details><summary class="foldable"> is followed by one
\* </summary> and then one </details>, in that order, before </code></pre>, and
\* no </summary> and no </details> stands without its opening tag.
C26_FoldTagsWellNested ==
    FencedClosed => Nesting(Last(new_events).str, 1, "out") = "out"

\* ------------------------------------------------- claims on the passes

\* Every entry of every page with entries has been processed to its end, every
\* file of a Dir entry included, and its page is a key of the index.
EntriesPassDone ==
    \A p \in 1..Len(PagesWithEntries(config)) :
        LET page == PagesWithEntries(config)[p]
        IN  \A e \in 1..Len(page.entries) :
                /\ page.entries[e].kind = "Dir" =>
                       \E r \in Range(returned) : r.page = p /\ r.entry = e
                /\ (page.entries[e].kind = "File" \/ \E r \in Range(returned) : r.page = p /\ r.entry = e) =>
                       \A n \in 1..Len(FilesOfEntry(p, e)) :
                           \E d \in Range(processed) :
                               d.page = p /\ d.entry = e /\ d.file = FilesOfEntry(p, e)[n]
                /\ page.name \in DOMAIN context

\* The first write of a feed file, 0 when there is none.
FirstFeedWrite ==
    LET rss == {k \in DOMAIN writes : writes[k].kind = "rss"}
    IN  IF rss = {} THEN 0 ELSE CHOOSE k \in rss : \A j \in rss : k <= j

\* C25: the build runs in three passes, one after the other: no listing
\* template is rendered before every entry of every WithEntries page has been
\* processed and recorded in the index, and no feed file is written before the
\* index.html of every page has been written.
C25_ThreePasses ==
    /\ renders # <<>> => EntriesPassDone
    /\ FirstFeedWrite # 0 =>
           \A i \in 1..Len(config) :
               \E k \in 1..(FirstFeedWrite - 1) :
                   /\ writes[k].kind = "listing"
                   /\ writes[k].path = Resolve(ListingFile(GetName(config[i])))

\* The number of Metadata records the index ctx holds under the keys of names.
RECURSIVE IndexSize(_, _)
IndexSize(ctx, names) ==
    IF names = {} THEN 0
    ELSE LET name == CHOOSE n \in names : TRUE
         IN  Len(ctx[name]) + IndexSize(ctx, names \ {name})

\* The entry pages of the output tree d.
EntryPages(d) == {p \in DOMAIN d : d[p].kind = "entry"}

\* C27: no write of an entry page goes to a path written earlier in the build,
\* any two processed entries have distinct entry page paths, and after a build
\* that succeeded the output tree holds as many entry pages as the index holds
\* Metadata records.
C27_EntryWritesDistinct ==
    /\ \A i, j \in DOMAIN writes :
           (i < j /\ writes[j].kind = "entry") => writes[j].path # writes[i].path
    /\ \A i, j \in DOMAIN processed :
           i # j => Resolve(TargetFile(processed[i].name, FileStem(processed[i].file)))
                    # Resolve(TargetFile(processed[j].name, FileStem(processed[j].file)))
    /\ (pc = "done" /\ result = "Ok") =>
           Cardinality(EntryPages(disk)) = IndexSize(context, DOMAIN context)

====
